---- MODULE Spec2Model ----
(***************************************************************************)
(* Vault Core (lib/src/vault/native/src/lib.rs): the six C-ABI functions   *)
(* vault_derive_key, vault_seal, vault_unseal, vault_free, vault_zeroize   *)
(* and vault_random as a state machine over the process memory.            *)
(*                                                                         *)
(* Lengths are u32 and usize values.  They are kept at their width as two  *)
(* limbs of 16 bits (TLC's integers stop at 2^31 - 1), and a byte string   *)
(* is kept run-length encoded, so that a plaintext of 2^32 - 1 bytes is a  *)
(* value of the model like one of 13 bytes.                                *)
(***************************************************************************)
EXTENDS Integers, Sequences, FiniteSets

VARIABLES mem, handed

vars == <<mem, handed>>

(***************************************************************************)
(* Program constants.                                                      *)
(***************************************************************************)
KEY_SIZE == 32
NONCE_SIZE == 24
TAG_SIZE == 16
SALT_SIZE == 16
ERR_INVALID_INPUT == -1
ERR_DECRYPT_FAILED == -2
ERR_KDF_FAILED == -3

(***************************************************************************)
(* Lengths: hi * 2^16 + lo.  A u32 has hi < 2^16; a usize has room above.  *)
(***************************************************************************)
Limb == 2^16

Len32(n) == [hi |-> n \div Limb, lo |-> n % Limb]

LenAdd(a, b) ==
    LET s == a.lo + b.lo
    IN  [hi |-> a.hi + b.hi + (s \div Limb), lo |-> s % Limb]

LenLt(a, b) == a.hi < b.hi \/ (a.hi = b.hi /\ a.lo < b.lo)

LenLe(a, b) == a = b \/ LenLt(a, b)

\* a - b, for b <= a
LenSub(a, b) ==
    IF a.lo >= b.lo
    THEN [hi |-> a.hi - b.hi, lo |-> a.lo - b.lo]
    ELSE [hi |-> a.hi - b.hi - 1, lo |-> a.lo + Limb - b.lo]

\* `x as u32` of a usize: the low 32 bits
AsU32(a) == [hi |-> a.hi % Limb, lo |-> a.lo]

IsU32(a) == a.hi < Limb

\* 2^32 - d, for 0 < d <= 2^16
U32Minus(d) == [hi |-> Limb - 1, lo |-> Limb - d]

(***************************************************************************)
(* Byte strings: a sequence of runs [n |-> length, b |-> byte], no run     *)
(* empty and no two neighbours of the same byte, so that two strings are   *)
(* equal exactly when their encodings are.                                 *)
(***************************************************************************)
Fill(n, b) == IF n = Len32(0) THEN <<>> ELSE <<[n |-> n, b |-> b]>>

Cat(r, s) ==
    IF r = <<>> THEN s
    ELSE IF s = <<>> THEN r
    ELSE IF r[Len(r)].b = s[1].b
         THEN SubSeq(r, 1, Len(r) - 1)
              \o <<[n |-> LenAdd(r[Len(r)].n, s[1].n), b |-> s[1].b]>>
              \o Tail(s)
         ELSE r \o s

RECURSIVE Bytes(_)
Bytes(q) == IF q = <<>> THEN <<>> ELSE Cat(Fill(Len32(1), Head(q)), Bytes(Tail(q)))

\* the number of bytes in the runs from i on
RECURSIVE SizeFrom(_, _)
SizeFrom(r, i) == IF i > Len(r) THEN Len32(0) ELSE LenAdd(r[i].n, SizeFrom(r, i + 1))

Size(r) == SizeFrom(r, 1)

\* the sum of the bytes in the runs from i on, modulo 256
RECURSIVE ByteSumFrom(_, _)
ByteSumFrom(r, i) ==
    IF i > Len(r) THEN 0
    ELSE (((r[i].n.lo % 256) * r[i].b) + ByteSumFrom(r, i + 1)) % 256

ByteSum(r) == ByteSumFrom(r, 1)

\* the runs before run i and the first k bytes of the runs from i on
RECURSIVE TakeFrom(_, _, _)
TakeFrom(r, k, i) ==
    IF k = Len32(0) \/ i > Len(r) THEN SubSeq(r, 1, i - 1)
    ELSE IF LenLe(r[i].n, k)
         THEN TakeFrom(r, LenSub(k, r[i].n), i + 1)
         ELSE Append(SubSeq(r, 1, i - 1), [n |-> k, b |-> r[i].b])

\* the first k bytes, for k <= Size(r)
Take(r, k) == TakeFrom(r, k, 1)

\* the runs from i on without their first k bytes
RECURSIVE DropFrom(_, _, _)
DropFrom(r, k, i) ==
    IF i > Len(r) THEN <<>>
    ELSE IF k = Len32(0) THEN SubSeq(r, i, Len(r))
    ELSE IF LenLe(r[i].n, k)
         THEN DropFrom(r, LenSub(k, r[i].n), i + 1)
         ELSE <<[n |-> LenSub(r[i].n, k), b |-> r[i].b]>> \o SubSeq(r, i + 1, Len(r))

\* all but the first k bytes, for k <= Size(r)
Drop(r, k) == DropFrom(r, k, 1)

\* every byte moved by d, modulo 256
AddBytes(r, d) == [i \in 1..Len(r) |-> [n |-> r[i].n, b |-> (r[i].b + d) % 256]]

Zeros(r) == Fill(Size(r), 0)

AllZero(r) == r = Zeros(r)

\* byte b with bit j flipped
FlipBit(b, j) == IF (b \div (2^j)) % 2 = 1 THEN b - 2^j ELSE b + 2^j

\* r with bit j of the byte at offset k flipped, for k < Size(r)
FlipAt(r, k, j) ==
    LET old == Drop(r, k)[1].b
    IN  Cat(Cat(Take(r, k), Fill(Len32(1), FlipBit(old, j))),
            Drop(r, LenAdd(k, Len32(1))))

(***************************************************************************)
(* The external crates, by the contract the code relies on.  The stand-ins *)
(* are deterministic functions of the same arguments and keep the crates'  *)
(* sizes, argument checks and failure results; their bytes are a checksum  *)
(* construction, not the real ciphers.                                     *)
(***************************************************************************)

\* getrandom::getrandom: what the OS source may deliver for a request of n bytes
RandomBytes(n) ==
    { Fill(n, 17),
      Cat(Fill(Len32(1), 160), Fill(LenSub(n, Len32(1)), 11)) }

\* Argon2::hash_password_into(pwd, salt, out) with Params(65536, 3, 4, Some(32)):
\* rejects a salt under 8 bytes and a password or salt over 2^32 - 1 bytes
Argon2Hash(pwd, salt) ==
    IF \/ LenLt(Size(salt), Len32(8))
       \/ ~IsU32(Size(salt))
       \/ ~IsU32(Size(pwd))
    THEN [ok |-> FALSE, out |-> Fill(Len32(KEY_SIZE), 0)]
    ELSE [ok |-> TRUE,
          out |-> Fill(Len32(KEY_SIZE),
                       (ByteSum(pwd) + 5 * ByteSum(salt) + (Size(pwd).lo % 256) + 19) % 256)]

\* the key stream byte of (key, nonce)
KeyStream(key, nonce) == (ByteSum(key) + ByteSum(nonce)) % 256

\* the authentication tag of a ciphertext under (key, nonce)
Tag(key, nonce, ct) ==
    Fill(Len32(TAG_SIZE),
         (3 * ByteSum(key) + ByteSum(nonce) + ByteSum(ct) + (Size(ct).lo % 256) + 1) % 256)

\* XChaCha20Poly1305::encrypt(nonce, plaintext): ciphertext || tag; fails on
\* len / 64 >= u32::MAX blocks
AeadEncrypt(key, nonce, pt) ==
    IF LenLe([hi |-> 64 * Limb - 1, lo |-> Limb - 64], Size(pt))
    THEN [ok |-> FALSE, out |-> <<>>]
    ELSE LET ct == AddBytes(pt, KeyStream(key, nonce))
         IN  [ok |-> TRUE, out |-> Cat(ct, Tag(key, nonce, ct))]

\* XChaCha20Poly1305::decrypt(nonce, ciphertext || tag): the plaintext, or an
\* error without output when the input is shorter than a tag or the tag differs
AeadDecrypt(key, nonce, buf) ==
    IF LenLt(Size(buf), Len32(TAG_SIZE))
    THEN [ok |-> FALSE, out |-> <<>>]
    ELSE LET n  == LenSub(Size(buf), Len32(TAG_SIZE))
             ct == Take(buf, n)
         IN  IF Drop(buf, n) = Tag(key, nonce, ct)
             THEN [ok |-> TRUE, out |-> AddBytes(ct, 256 - KeyStream(key, nonce))]
             ELSE [ok |-> FALSE, out |-> <<>>]

(***************************************************************************)
(* Memory.  mem[a] is the region at address a: its bytes, whether it is    *)
(* allocated, what allocated it, and as history its bytes when it was      *)
(* handed over, whether its owner has since passed it to a call that       *)
(* writes or written it, and its bytes at the moment it was deallocated.   *)
(* Address 0 is null; address 1 is the dangling non-null address of every  *)
(* empty boxed slice.                                                      *)
(***************************************************************************)
NULL == 0
DANGLING == 1

Region(tag, bytes) ==
    [tag |-> tag, live |-> TRUE, bytes |-> bytes, ret |-> bytes,
     dirty |-> FALSE, atDealloc |-> <<>>]

Hello == <<72, 101, 108, 108, 111, 44, 32, 118, 97, 117, 108, 116, 33>>
Passphrase == <<116, 101, 115, 116, 32, 112, 97, 115, 115, 112, 104, 114, 97, 115, 101>>

\* the caller's own memory: the tests' keys, passphrase and salt, a salt
\* region of 20 bytes, a message of n bytes (the tests' message, continued
\* with 'A's) and a zeroed output region, the caller's to write
CallerMem(n) ==
    << Region("dangling", <<>>),
       Region("key", Fill(Len32(KEY_SIZE), 66)),
       Region("key", Fill(Len32(KEY_SIZE), 67)),
       Region("pass", Bytes(Passphrase)),
       Region("salt", Fill(Len32(SALT_SIZE), 0)),
       Region("salt", Cat(Fill(Len32(SALT_SIZE), 0), Fill(Len32(4), 7))),
       Region("msg", IF LenLe(n, Len32(Len(Hello)))
                     THEN Take(Bytes(Hello), n)
                     ELSE Cat(Bytes(Hello), Fill(LenSub(n, Len32(Len(Hello))), 65))),
       [Region("out", Fill(Len32(32), 0)) EXCEPT !.dirty = TRUE] >>

Addrs == 1..Len(mem)

Tagged(t) == {a \in Addrs : mem[a].tag = t /\ mem[a].live}

\* slice::from_raw_parts(p, n): the first n bytes at p
Slice(p, n) == Take(mem[p].bytes, n)


(***************************************************************************)
(* VaultBuffer                                                             *)
(***************************************************************************)
\* VaultBuffer::error with a non-null pointer left in data
VaultBufferErrorDangling(code) == [data |-> DANGLING, len |-> Len32(0), error |-> code]

\* VaultBuffer::error
VaultBufferError(code) == [data |-> NULL, len |-> Len32(0), error |-> code]

\* Box::into_raw(data.into_boxed_slice()): a fresh allocation, or the dangling
\* address for an empty vector
IntoRaw(m, data, tag) ==
    IF data = <<>>
    THEN [mem |-> m, ptr |-> DANGLING]
    ELSE [mem |-> Append(m, Region(tag, data)), ptr |-> Len(m) + 1]

\* VaultBuffer::success: len is data.len() as u32
VaultBufferSuccess(m, data, tag) ==
    LET r == IntoRaw(m, data, tag)
    IN  [mem |-> r.mem,
         buf |-> [data |-> r.ptr, len |-> AsU32(Size(data)), error |-> 0]]

(***************************************************************************)
(* The six functions.  Each yields the memory after the call, the          *)
(* VaultBuffer or status returned, the slices it read and the library      *)
(* calls it made.                                                          *)
(***************************************************************************)
Outcome(m, buf, work, fixed, input) ==
    [mem |-> m, buf |-> buf, work |-> work, fixed |-> fixed, input |-> input]

\* Params::new(ARGON2_M_COST, ARGON2_T_COST, ARGON2_P_COST, Some(KEY_SIZE))
ARGON2_M_COST == 65536
ARGON2_T_COST == 3
ARGON2_P_COST == 4
ParamsNew ==
    /\ ARGON2_P_COST >= 1
    /\ ARGON2_T_COST >= 1
    /\ ARGON2_M_COST >= 8 * ARGON2_P_COST
    /\ KEY_SIZE >= 4

\* vault_derive_key without the check of passphrase_len
vault_derive_key_unchecked_len(passphrase, passphrase_len, salt) ==
    IF passphrase = NULL \/ salt = NULL
    THEN Outcome(mem, VaultBufferError(ERR_INVALID_INPUT), {}, <<>>, <<>>)
    ELSE LET passphrase_slice == Slice(passphrase, passphrase_len)
             salt_slice == Slice(salt, Len32(SALT_SIZE))
             key == Argon2Hash(passphrase_slice, salt_slice)
             ok == VaultBufferSuccess(mem, key.out, "derive")
         IN  IF key.ok
             THEN Outcome(ok.mem, ok.buf, {"params", "argon2"},
                          salt_slice, passphrase_slice)
             ELSE Outcome(mem, VaultBufferError(ERR_KDF_FAILED), {"params", "argon2"},
                          salt_slice, passphrase_slice)

\* vault_derive_key with the key mixed into what the heap held before: the
\* result depends on the allocations made so far
vault_derive_key_stale(passphrase, passphrase_len, salt) ==
    IF passphrase = NULL \/ salt = NULL \/ passphrase_len = Len32(0)
    THEN Outcome(mem, VaultBufferError(ERR_INVALID_INPUT), {}, <<>>, <<>>)
    ELSE LET passphrase_slice == Slice(passphrase, passphrase_len)
             salt_slice == Slice(salt, Len32(SALT_SIZE))
             key == Argon2Hash(passphrase_slice, salt_slice)
             ok == VaultBufferSuccess(mem, AddBytes(key.out, Len(mem)), "derive")
         IN  IF key.ok
             THEN Outcome(ok.mem, ok.buf, {"params", "argon2"},
                          salt_slice, passphrase_slice)
             ELSE Outcome(mem, VaultBufferError(ERR_KDF_FAILED), {"params", "argon2"},
                          salt_slice, passphrase_slice)

vault_derive_key(passphrase, passphrase_len, salt) ==
    IF passphrase = NULL \/ salt = NULL \/ passphrase_len = Len32(0)
    THEN Outcome(mem, VaultBufferError(ERR_INVALID_INPUT), {}, <<>>, <<>>)
    ELSE LET passphrase_slice == Slice(passphrase, passphrase_len)
             salt_slice == Slice(salt, Len32(SALT_SIZE))
             key == Argon2Hash(passphrase_slice, salt_slice)
             ok == VaultBufferSuccess(mem, key.out, "derive")
         IN  IF ~ParamsNew
             THEN Outcome(mem, VaultBufferError(ERR_KDF_FAILED), {"params"},
                          salt_slice, passphrase_slice)
             ELSE IF key.ok
             THEN Outcome(ok.mem, ok.buf, {"params", "argon2"},
                          salt_slice, passphrase_slice)
             ELSE Outcome(mem, VaultBufferError(ERR_KDF_FAILED), {"params", "argon2"},
                          salt_slice, passphrase_slice)

\* rnd: what getrandom delivered, <<>> when it failed
vault_seal(key, plaintext, plaintext_len, rnd) ==
    IF key = NULL \/ plaintext = NULL
    THEN Outcome(mem, VaultBufferError(ERR_INVALID_INPUT), {}, <<>>, <<>>)
    ELSE LET key_slice == Slice(key, Len32(KEY_SIZE))
             plaintext_slice == Slice(plaintext, plaintext_len)
             nonce_bytes == rnd
             ciphertext == AeadEncrypt(key_slice, nonce_bytes, plaintext_slice)
             output == Cat(nonce_bytes, ciphertext.out)
             ok == VaultBufferSuccess(mem, output, "seal")
         IN  IF rnd = <<>>
             THEN Outcome(mem, VaultBufferError(ERR_INVALID_INPUT), {"getrandom"},
                          key_slice, plaintext_slice)
             ELSE IF ~ciphertext.ok
             THEN Outcome(mem, VaultBufferError(ERR_INVALID_INPUT),
                          {"getrandom", "cipher", "encrypt"}, key_slice, plaintext_slice)
             ELSE Outcome(ok.mem, ok.buf, {"getrandom", "cipher", "encrypt"},
                          key_slice, plaintext_slice)

\* min_len without the nonce
MinLenTagOnly == Len32(TAG_SIZE)

\* let min_len = NONCE_SIZE + TAG_SIZE
MinLen == Len32(NONCE_SIZE + TAG_SIZE)

vault_unseal(key, sealed, sealed_len) ==
    LET min_len == MinLen
    IN  IF key = NULL \/ sealed = NULL \/ LenLt(sealed_len, min_len)
        THEN Outcome(mem, VaultBufferError(ERR_INVALID_INPUT), {}, <<>>, <<>>)
        ELSE LET key_slice == Slice(key, Len32(KEY_SIZE))
                 sealed_slice == Slice(sealed, sealed_len)
                 nonce_bytes == Take(sealed_slice, Len32(NONCE_SIZE))
                 ciphertext == Drop(sealed_slice, Len32(NONCE_SIZE))
                 plaintext == AeadDecrypt(key_slice, nonce_bytes, ciphertext)
                 ok == VaultBufferSuccess(mem, plaintext.out, "unseal")
             IN  IF plaintext.ok
                 THEN Outcome(ok.mem, ok.buf, {"cipher", "decrypt"}, key_slice, sealed_slice)
                 ELSE Outcome(mem, VaultBufferError(ERR_DECRYPT_FAILED),
                              {"cipher", "decrypt"}, key_slice, sealed_slice)

\* a write of the bytes w at ptr
Write(m, ptr, w) ==
    LET new == Cat(w, Drop(m[ptr].bytes, Size(w)))
    IN  [m EXCEPT ![ptr].bytes = new]

\* slice.zeroize() running on into the allocation after ptr
ZeroizeOverrun(m, ptr, len) ==
    LET z == Write(m, ptr, Fill(len, 0))
    IN  IF ptr + 1 \in DOMAIN m
        THEN Write(z, ptr + 1, Fill(Len32(1), 0))
        ELSE z

\* slice.zeroize(): the first len bytes at ptr become zero
Zeroize(m, ptr, len) == Write(m, ptr, Fill(len, 0))

\* drop(Box::from_raw(..)): the allocation at ptr is returned to the allocator
Dealloc(m, ptr) ==
    [m EXCEPT ![ptr].live = FALSE, ![ptr].atDealloc = m[ptr].bytes]

\* vault_free without the zeroize
vault_free_no_zeroize(ptr, len) ==
    IF ptr = NULL \/ len = Len32(0)
    THEN mem
    ELSE Dealloc(mem, ptr)

vault_free(ptr, len) ==
    IF ptr = NULL \/ len = Len32(0)
    THEN mem
    ELSE Dealloc(Zeroize(mem, ptr, len), ptr)

vault_zeroize(ptr, len) ==
    IF ptr = NULL \/ len = Len32(0)
    THEN mem
    ELSE Zeroize(mem, ptr, len)

\* rnd: what getrandom delivered, <<>> when it failed; left: what a failed
\* getrandom left in the region
vault_random(out, len, rnd, left) ==
    IF out = NULL \/ len = Len32(0)
    THEN [mem |-> mem, rc |-> ERR_INVALID_INPUT, work |-> {}]
    ELSE IF rnd = <<>>
    THEN [mem |-> Write(mem, out, left), rc |-> ERR_INVALID_INPUT, work |-> {"getrandom"}]
    ELSE [mem |-> Write(mem, out, rnd), rc |-> 0, work |-> {"getrandom"}]

(***************************************************************************)
(* The callers.  handed is every VaultBuffer returned with error 0, in     *)
(* order, with the slices the call read.  A call that returns an error     *)
(* leaves memory as it was: it is a stuttering step, and what it returns   *)
(* is the value of its function in the state it is made in.                *)
(***************************************************************************)
\* how many buffers the callers are handed in one run
MaxBufs == 2

\* the message lengths tried: 0, 13, 2^32 - 1
PlainLens == {Len32(0), Len32(Len(Hello)), U32Minus(1)}

\* a call that returns a VaultBuffer: the buffer is handed over when error = 0
Return(op, r) ==
    /\ mem' = r.mem
    /\ handed' = IF r.buf.error = 0
                 THEN Append(handed, [op |-> op, data |-> r.buf.data, len |-> r.buf.len,
                                      fixed |-> r.fixed, input |-> r.input,
                                      released |-> FALSE])
                 ELSE handed

\* the owner of the n bytes at p passes them to a call that writes
Passed(m, p, n) ==
    IF p = NULL \/ n = Len32(0) THEN m ELSE [m EXCEPT ![p].dirty = TRUE]

\* the live buffers the callers hold
Held == {i \in 1..Len(handed) : ~handed[i].released /\ mem[handed[i].data].live}

\* pointers to 32 readable bytes: the caller's keys
KeyPtrs == Tagged("key")

Init ==
    /\ \E n \in PlainLens : mem = CallerMem(n)
    /\ handed = <<>>

\* the passphrase with its length or with length 0, the salt of 16 bytes or
\* the region of 20; a null pointer in either place
DeriveArgs ==
    {<<p, Size(mem[p].bytes), s>> : p \in Tagged("pass"), s \in Tagged("salt")}
    \cup {<<p, Len32(0), s>> : p \in Tagged("pass"), s \in Tagged("salt")}
    \cup {<<NULL, Len32(Len(Passphrase)), s>> : s \in Tagged("salt")}
    \cup {<<p, Size(mem[p].bytes), NULL>> : p \in Tagged("pass")}

DeriveKey ==
    /\ Len(handed) < MaxBufs
    /\ \E a \in DeriveArgs : Return("derive", vault_derive_key(a[1], a[2], a[3]))

\* the key the tests seal with
SealKeys == {k \in KeyPtrs : mem[k].bytes = Fill(Len32(KEY_SIZE), 66)}

\* a key and the message with its length; a null pointer in either place
SealArgs ==
    {<<k, p, Size(mem[p].bytes)>> : k \in SealKeys, p \in Tagged("msg")}
    \cup {<<NULL, p, Size(mem[p].bytes)>> : p \in Tagged("msg")}
    \cup {<<k, NULL, Len32(Len(Hello))>> : k \in SealKeys}

\* what getrandom does for a nonce: fail, or deliver 24 bytes
NonceDraws == {<<>>} \cup RandomBytes(Len32(NONCE_SIZE))

Seal ==
    /\ Len(handed) < MaxBufs
    /\ \E a \in SealArgs, rnd \in NonceDraws :
          Return("seal", vault_seal(a[1], a[2], a[3], rnd))

\* what a caller passes as a sealed message: a buffer it was handed, with
\* the length it was handed
SealedArgs == {<<handed[i].data, handed[i].len>> : i \in Held}

\* or 39 or 40 bytes of a larger sealed message or of its own message
ShortArgs ==
    {<<a, Len32(n)>> : a \in {b \in Tagged("seal") \cup Tagged("msg") :
                                LenLe(Len32(40), Size(mem[b].bytes))},
                       n \in {39, 40}}

\* a key and a sealed message; a null pointer in either place
UnsealArgs ==
    {<<k, s[1], s[2]>> : k \in KeyPtrs, s \in SealedArgs}
    \cup {<<k, s[1], s[2]>> : k \in SealKeys, s \in ShortArgs}
    \cup {<<NULL, s[1], s[2]>> : s \in {t \in SealedArgs : t[1] \in Tagged("seal")}}
    \cup {<<k, NULL, Len32(40)>> : k \in SealKeys}

Unseal ==
    /\ Len(handed) < MaxBufs
    /\ \E a \in UnsealArgs : Return("unseal", vault_unseal(a[1], a[2], a[3]))

\* vault_free's preconditions: a buffer returned by a vault function, not freed
\* before, with its original length (a call with length 0 returns at once);
\* or a null pointer
Freeable ==
    {i \in 1..Len(handed) :
        /\ ~handed[i].released
        /\ \/ handed[i].len = Len32(0)
           \/ /\ mem[handed[i].data].live
              /\ handed[i].len = Size(mem[handed[i].data].bytes)}

Free ==
    \/ \E i \in Freeable :
          /\ mem' = Passed(vault_free(handed[i].data, handed[i].len),
                           handed[i].data, handed[i].len)
          /\ handed' = [handed EXCEPT ![i].released = TRUE]
    \/ /\ mem' = vault_free(NULL, Len32(KEY_SIZE))
       /\ UNCHANGED handed

\* what a caller scrubs: a buffer it holds, its output region (whole, or
\* with length 0), a null pointer
ScrubArgs ==
    {<<handed[i].data, handed[i].len>> : i \in Held}
    \cup {<<a, Size(mem[a].bytes)>> : a \in Tagged("out")}
    \cup {<<a, Len32(0)>> : a \in Tagged("out")}
    \cup {<<NULL, Len32(KEY_SIZE)>>}

ZeroizeCall ==
    \E s \in ScrubArgs :
       /\ mem' = Passed(vault_zeroize(s[1], s[2]), s[1], s[2])
       /\ UNCHANGED handed

\* the output region whole or with length 0, a null pointer
RandomArgs ==
    {<<a, Len32(32)>> : a \in {NULL} \cup Tagged("out")}
    \cup {<<a, Len32(0)>> : a \in Tagged("out")}

\* getrandom delivers, or fails and leaves the region as it was or filled
Random ==
    \E a \in RandomArgs :
       \/ \E rnd \in {Fill(a[2], 17)} :
             /\ mem' = Passed(vault_random(a[1], a[2], rnd, rnd).mem, a[1], a[2])
             /\ UNCHANGED handed
       \/ /\ a[1] # NULL
          /\ a[2] # Len32(0)
          /\ \E left \in {Fill(a[2], 17), Slice(a[1], a[2])} :
                /\ mem' = Passed(vault_random(a[1], a[2], <<>>, left).mem, a[1], a[2])
                /\ UNCHANGED handed

\* a caller flips one bit of a sealed message it holds: bit 0 of the first
\* nonce byte, bit 7 of the first byte after the nonce, bit 0 of the last byte
Flips(size) == {<<Len32(0), 0>>, <<Len32(NONCE_SIZE), 7>>, <<LenSub(size, Len32(1)), 0>>}

Tamper ==
    \E i \in {j \in Held : handed[j].op = "seal" /\ ~mem[handed[j].data].dirty} :
       LET a == handed[i].data
       IN  \E f \in Flips(Size(mem[a].bytes)) :
              /\ mem' = [mem EXCEPT ![a].bytes = FlipAt(@, f[1], f[2]), ![a].dirty = TRUE]
              /\ UNCHANGED handed

Next ==
    \/ DeriveKey
    \/ Seal
    \/ Unseal
    \/ Free
    \/ ZeroizeCall
    \/ Random
    \/ Tamper

Spec == Init /\ [][Next]_vars

(***************************************************************************)
(* Properties.  What a call returns is read from handed when the call      *)
(* succeeded, and is otherwise the value of its function on the arguments  *)
(* a caller may pass in the state at hand.                                 *)
(***************************************************************************)
Overhead == Len32(NONCE_SIZE + TAG_SIZE)

\* the sealed messages the callers hold
Sealed == {i \in Held : handed[i].op = "seal"}

\* those still as they were handed over
Untouched == {i \in Sealed : ~mem[handed[i].data].dirty}

\* those with one bit flipped since
Flipped ==
    {i \in Sealed :
        LET was == mem[handed[i].data].ret
        IN  mem[handed[i].data].bytes \in {FlipAt(was, f[1], f[2]) : f \in Flips(Size(was))}}

\* the keys equal to, and different from, the key message i was sealed with
SameKey(i) == {k \in KeyPtrs : Slice(k, Len32(KEY_SIZE)) = handed[i].fixed}
OtherKey(i) == KeyPtrs \ SameKey(i)

\* vault_unseal of message i as it was handed over, with key k
UnsealOf(i, k) == vault_unseal(k, handed[i].data, handed[i].len)

\* the bytes behind a returned buffer
BytesOf(r) == r.mem[r.buf.data].bytes

\* message i was sealed without the length wrapping around 2^32
InRange(i) == IsU32(LenAdd(Size(handed[i].input), Overhead))

\* C1: sealing any message under any key succeeds with status 0, and
\* unsealing the sealed buffer with the same key returns status 0 and the
\* message, length and bytes, whatever the nonce
RoundTrip ==
    /\ \A a \in SealArgs, rnd \in RandomBytes(Len32(NONCE_SIZE)) :
          (a[1] # NULL /\ a[2] # NULL) => vault_seal(a[1], a[2], a[3], rnd).buf.error = 0
    /\ \A i \in Untouched : \A k \in SameKey(i) :
          LET r == UnsealOf(i, k)
          IN  /\ r.buf.error = 0
              /\ r.buf.len = Size(handed[i].input)
              /\ BytesOf(r) = handed[i].input

\* the round trip of the messages whose sealed length fits 32 bits
RoundTripInRange ==
    \A i \in Untouched : \A k \in SameKey(i) :
       InRange(i) =>
          LET r == UnsealOf(i, k)
          IN  /\ r.buf.error = 0
              /\ r.buf.len = Size(handed[i].input)
              /\ BytesOf(r) = handed[i].input

\* C2: unsealing a sealed message with a key other than the one it was
\* sealed with returns status -2, never 0 and never -1
WrongKeyRejected ==
    \A i \in Untouched : \A k \in OtherKey(i) :
       UnsealOf(i, k).buf.error = ERR_DECRYPT_FAILED

WrongKeyRejectedInRange ==
    \A i \in Untouched : \A k \in OtherKey(i) :
       InRange(i) => UnsealOf(i, k).buf.error = ERR_DECRYPT_FAILED

\* C3: unsealing a sealed message with one bit flipped (in the nonce, the
\* ciphertext or the tag) with the right key returns status -2
TamperDetected ==
    \A i \in Flipped : \A k \in SameKey(i) :
       UnsealOf(i, k).buf.error = ERR_DECRYPT_FAILED

TamperDetectedInRange ==
    \A i \in Flipped : \A k \in SameKey(i) :
       InRange(i) => UnsealOf(i, k).buf.error = ERR_DECRYPT_FAILED

\* C4: the len field of a sealed buffer is plaintext_len + 40, and is the
\* number of bytes allocated behind data
LengthLaw ==
    \A i \in 1..Len(handed) :
       handed[i].op = "seal" =>
          /\ handed[i].len = LenAdd(Size(handed[i].input), Overhead)
          /\ handed[i].len = Size(mem[handed[i].data].ret)

\* what is allocated is nonce || ciphertext || tag, plaintext_len + 40 bytes,
\* and len is that number modulo 2^32
LengthLawModulo ==
    \A i \in 1..Len(handed) :
       handed[i].op = "seal" =>
          /\ Size(mem[handed[i].data].ret) = LenAdd(Size(handed[i].input), Overhead)
          /\ handed[i].len = AsU32(Size(mem[handed[i].data].ret))

\* C5: for a key and a sealed input that are not null and sealed_len < 40,
\* vault_unseal returns -1 with no cipher constructed and no decryption
\* attempted; with sealed_len = 40 the length check lets the input through
\* and decryption is attempted
ShortInputRejected ==
    \A a \in UnsealArgs :
       (a[1] # NULL /\ a[2] # NULL) =>
          LET r == vault_unseal(a[1], a[2], a[3])
          IN  /\ LenLt(a[3], Len32(40)) =>
                    (r.buf.error = ERR_INVALID_INPUT /\ r.work = {} /\ r.mem = mem)
              /\ a[3] = Len32(40) =>
                    (r.buf.error # ERR_INVALID_INPUT /\ "decrypt" \in r.work)

\* a sealed empty message, 40 bytes, is held and unseals; its first 39 bytes
\* are rejected
ShortInputCase ==
    \E i \in Untouched :
       /\ handed[i].len = Len32(40)
       /\ \E k \in SameKey(i) : UnsealOf(i, k).buf.error = 0
       /\ \E a \in UnsealArgs :
             /\ a[1] # NULL
             /\ a[2] = handed[i].data
             /\ a[3] = Len32(39)
             /\ vault_unseal(a[1], a[2], a[3]).buf.error = ERR_INVALID_INPUT

\* the buffers vault_free has deallocated
Deallocated == {a \in Addrs : ~mem[a].live}

\* C6: every byte of a buffer vault_free has deallocated was zero when it was
\* deallocated; after vault_zeroize(ptr, len) the len bytes at ptr are zero
\* and the region is still allocated
ZeroizeBeforeRelease ==
    /\ \A a \in Deallocated :
          /\ AllZero(mem[a].atDealloc)
          /\ Size(mem[a].atDealloc) = Size(mem[a].ret)
    /\ \A s \in ScrubArgs :
          s[1] # NULL =>
             LET m == vault_zeroize(s[1], s[2])
             IN  /\ AllZero(Take(m[s[1]].bytes, s[2]))
                 /\ Size(m[s[1]].bytes) = Size(mem[s[1]].bytes)
                 /\ m[s[1]].live

\* a buffer that held bytes other than zero has been freed, and another one
\* has been scrubbed and is still allocated
ZeroizeCase ==
    /\ \E a \in Deallocated : ~AllZero(mem[a].ret)
    /\ \E i \in Held :
          /\ ~AllZero(mem[handed[i].data].ret)
          /\ mem[handed[i].data].dirty
          /\ AllZero(mem[handed[i].data].bytes)

\* the keys derived so far
Derived == {i \in 1..Len(handed) : handed[i].op = "derive"}

Shaped(b, codes) ==
    /\ b.error \in codes
    /\ b.error # 0 => (b.data = NULL /\ b.len = Len32(0))
    /\ b.error = 0 => b.data # NULL

\* C8: every VaultBuffer returned has error in {0, -1, -2, -3}, is null with
\* len 0 when error # 0 and not null when error = 0; vault_seal returns no -2
\* or -3, vault_unseal no -3, vault_derive_key no -2, vault_random 0 or -1
FailureShape ==
    /\ \A a \in DeriveArgs :
          Shaped(vault_derive_key(a[1], a[2], a[3]).buf, {0, -1, -3})
    /\ \A a \in SealArgs, rnd \in NonceDraws :
          Shaped(vault_seal(a[1], a[2], a[3], rnd).buf, {0, -1})
    /\ \A a \in UnsealArgs :
          Shaped(vault_unseal(a[1], a[2], a[3]).buf, {0, -1, -2})
    /\ \A a \in RandomArgs :
          /\ \A rnd \in RandomBytes(a[2]) :
                vault_random(a[1], a[2], rnd, rnd).rc \in {0, -1}
          /\ \A left \in RandomBytes(a[2]) :
                vault_random(a[1], a[2], <<>>, left).rc \in {0, -1}

\* with a sealed message held, vault_unseal returns each of 0, -1 and -2
FailureShapeCase ==
    /\ Sealed # {}
    /\ \A c \in {0, ERR_INVALID_INPUT, ERR_DECRYPT_FAILED} :
          \E a \in UnsealArgs : vault_unseal(a[1], a[2], a[3]).buf.error = c
    /\ \E a \in SealArgs : vault_seal(a[1], a[2], a[3], <<>>).buf.error = ERR_INVALID_INPUT

\* the arguments vault_derive_key rejects according to its documentation
DeriveRejects(a) == a[1] = NULL \/ a[2] = Len32(0) \/ a[3] = NULL

\* C9 as stated: vault_derive_key returns -1, with no derivation work and no
\* key buffer, when the passphrase is null or of length 0, or the salt is null
\* or is not exactly 16 bytes long
DeriveValidation ==
    \A a \in DeriveArgs :
       (DeriveRejects(a) \/ Size(mem[a[3]].bytes) # Len32(16)) =>
          LET r == vault_derive_key(a[1], a[2], a[3])
          IN  r.buf.error = ERR_INVALID_INPUT /\ r.work = {} /\ r.mem = mem

\* C9: vault_derive_key returns -1, with no derivation work and no key
\* buffer, exactly when the passphrase is null or of length 0 or the salt is
\* null, and otherwise goes on to derive; the size of the region behind salt
\* or key is not looked at, the first 16 bytes of the one and the first 32 of
\* the other are what is used
DeriveValidationOfPointers ==
    /\ \A a \in DeriveArgs :
          LET r == vault_derive_key(a[1], a[2], a[3])
          IN  IF DeriveRejects(a)
              THEN r.buf.error = ERR_INVALID_INPUT /\ r.work = {} /\ r.mem = mem
              ELSE /\ r.buf.error # ERR_INVALID_INPUT
                   /\ "argon2" \in r.work
                   /\ r.fixed = Take(mem[a[3]].bytes, Len32(16))
                   /\ r.input = Take(mem[a[1]].bytes, a[2])
    /\ \A i \in 1..Len(handed) :
          Size(handed[i].fixed) = IF handed[i].op = "derive" THEN Len32(16) ELSE Len32(32)

\* a key has been derived, the region of 20 bytes is accepted as a salt and
\* the passphrase of length 0 is rejected
DeriveValidationCase ==
    /\ Derived # {}
    /\ \E a \in DeriveArgs :
          /\ ~DeriveRejects(a)
          /\ Size(mem[a[3]].bytes) = Len32(20)
          /\ vault_derive_key(a[1], a[2], a[3]).buf.error = 0
    /\ \E a \in DeriveArgs :
          /\ a[1] # NULL /\ a[3] # NULL /\ a[2] = Len32(0)
          /\ vault_derive_key(a[1], a[2], a[3]).buf.error = ERR_INVALID_INPUT

\* a region keeps its bytes until its owner passes it to a call that writes
Framed == \A a \in Addrs : ~mem[a].dirty => mem[a].bytes = mem[a].ret

\* C10 as stated: every buffer returned is an allocation of its own, distinct
\* from every other held buffer, and keeps its bytes until its caller passes
\* it to vault_free or vault_zeroize; no call writes to a caller's input
ExclusiveOwnership ==
    /\ \A i \in 1..Len(handed) : mem[handed[i].data].tag = handed[i].op
    /\ \A i \in Held, j \in Held : i # j => handed[i].data # handed[j].data
    /\ Framed

\* C10: every buffer returned with at least one byte is an allocation of its
\* own, distinct from every other held buffer (an empty one is the dangling
\* pointer, shared by all empty buffers); every buffer keeps its bytes until
\* its caller passes it to vault_free or vault_zeroize; no call writes to a
\* caller's input
ExclusiveOwnershipOfBytes ==
    /\ \A i \in 1..Len(handed) :
          IF Size(mem[handed[i].data].ret) = Len32(0)
          THEN handed[i].data = DANGLING /\ handed[i].len = Len32(0)
          ELSE mem[handed[i].data].tag = handed[i].op
    /\ \A i \in Held, j \in Held :
          (i # j /\ handed[i].len # Len32(0) /\ handed[j].len # Len32(0))
             => handed[i].data # handed[j].data
    /\ Framed

\* two buffers are held, one scrubbed by its caller, the other with the bytes
\* it was returned with
OwnershipCase ==
    \E i \in Held, j \in Held :
       /\ i # j
       /\ mem[handed[i].data].dirty
       /\ AllZero(mem[handed[i].data].bytes)
       /\ ~mem[handed[j].data].dirty
       /\ ~AllZero(mem[handed[j].data].bytes)

\* a message of 2^32 - 1 bytes is sealed into 2^32 + 39 bytes with len 39
LengthWrapped ==
    \E i \in Sealed :
       /\ Size(handed[i].input) = U32Minus(1)
       /\ Size(mem[handed[i].data].ret) = [hi |-> Limb, lo |-> 39]
       /\ handed[i].len = Len32(39)

\* a sealed message unsealed with its key and its len is rejected as too short
RoundTripLost ==
    \E i \in Untouched : \E k \in SameKey(i) :
       UnsealOf(i, k).buf.error = ERR_INVALID_INPUT

\* a sealed message unsealed with another key is rejected as too short
WrongKeyInvalidInput ==
    \E i \in Untouched : \E k \in OtherKey(i) :
       UnsealOf(i, k).buf.error = ERR_INVALID_INPUT

\* a sealed message with one bit flipped is rejected as too short
TamperInvalidInput ==
    \E i \in Flipped : \E k \in SameKey(i) :
       UnsealOf(i, k).buf.error = ERR_INVALID_INPUT
====
